---------------------------- MODULE Spec2Model ----------------------------
(***************************************************************************)
(* Model of the BinaryEthPredMarket compiler pipeline                      *)
(*   src/dsl/parser.py        (grammar, MarketTransformer, parse_market)   *)
(*   src/market_generator.py  (generate_contract and the BinaryMarket      *)
(*                             contract its template emits)                *)
(*                                                                         *)
(* Two specifications:                                                     *)
(*   Spec        one compilation run: parse_market on a DSL document and   *)
(*               generate_contract on the resulting dictionary, or         *)
(*               generate_contract called on a caller-built dictionary     *)
(*               (as market_generator.py's __main__ does);                 *)
(*   SpecMarket  the transactions of one deployed BinaryMarket contract.   *)
(***************************************************************************)
EXTENDS Integers, Sequences, FiniteSets, TLC

VARIABLES
    \* ---- compilation run ----
    origin,      \* "dsl": the run starts from a document; "direct": from a dict
    doc,         \* the document: a sequence of lexemes
    market,      \* the dictionary handed to generate_contract
    pc,          \* "start" | "parsed" | "done" | "failed"
    contract,    \* text returned by the first generate_contract call (<<>>: none)
    contract2,   \* text returned by a second call on the same dictionary
    fee_local,   \* generate_contract's local variable `fee` (Unset: not computed)
    converted,   \* how many times the run multiplied the fee by 100
    error,       \* the exception that ended the run ("none": none)
    stages,      \* the stages that ran, in order
    calls,       \* number of generate_contract invocations so far
    \* ---- deployed BinaryMarket contract ----
    oracle,            \* address public oracle
    fee,               \* uint256 public fee (basis points)
    isResolved,        \* bool public isResolved
    winningOutcome,    \* Outcome public winningOutcome
    outcomeAmounts,    \* mapping(Outcome => uint256)
    userPositions,     \* mapping(address => mapping(Outcome => uint256))
    balance,           \* address(this).balance
    received,          \* ETH each address has received from the contract
    frames,            \* claimWinnings calls suspended in their ETH transfer
    resolver,          \* the address whose resolveMarket call succeeded
    bets,              \* number of successful openPosition calls
    staked,            \* what each address has staked on each outcome, in all
    last               \* the outcome of the latest call

pipeVars == <<origin, doc, market, pc, contract, contract2, fee_local,
              converted, error, stages, calls>>
chainVars == <<oracle, fee, isResolved, winningOutcome, outcomeAmounts,
               userPositions, balance, received, frames, resolver, bets, staked,
               last>>
vars == <<pipeVars, chainVars>>

(***************************************************************************)
(* Bounds of the model                                                     *)
(***************************************************************************)
MaxFields == 4        \* a document holds at most this many field statements
MaxCalls == 2         \* generate_contract invocations per run

(***************************************************************************)
(* Characters and strings.  A Python str is a sequence of one-character    *)
(* strings.                                                                *)
(***************************************************************************)
Digit == <<"0", "1", "2", "3", "4", "5", "6", "7", "8", "9">>
DigitSet == {Digit[i] : i \in 1..10}
HexSet == DigitSet \cup {"a", "b", "c", "d", "e", "f", "A", "B", "C", "D", "E", "F"}
QUOTE == "\""
BACKSLASH == "\\"

AddressHexDigits == 40

\* int(): decimal value of a digit string (src/dsl/parser.py:51,
\* src/market_generator.py:18)
DigitVal(c) == (CHOOSE i \in 1..10 : Digit[i] = c) - 1
RECURSIVE int(_)
int(s) == IF s = <<>> THEN 0
          ELSE 10 * int(SubSeq(s, 1, Len(s) - 1)) + DigitVal(s[Len(s)])
\* str(): the decimal numeral of an int >= 0
RECURSIVE str(_)
str(n) == IF n < 10 THEN <<Digit[n + 1]>>
          ELSE str(n \div 10) \o <<Digit[(n % 10) + 1]>>
\* int() raises ValueError unless its argument is a numeral
IsNumeral(s) == s # <<>> /\ \A i \in 1..Len(s) : s[i] \in DigitSet
\* CPython (3.11 and later, and the security releases of 3.7-3.10) also
\* raises ValueError for a numeral of more than
\* sys.int_info.default_max_str_digits digits
IntMaxStrDigits == 4300
IntRaises(s) == ~IsNumeral(s) \/ Len(s) > IntMaxStrDigits

\* str.strip(c) / str.rstrip(c): remove every leading / trailing c
RECURSIVE rstrip(_, _)
rstrip(s, c) == IF s # <<>> /\ s[Len(s)] = c
                THEN rstrip(SubSeq(s, 1, Len(s) - 1), c) ELSE s
RECURSIVE lstrip(_, _)
lstrip(s, c) == IF s # <<>> /\ s[1] = c THEN lstrip(Tail(s), c) ELSE s
strip(s, c) == rstrip(lstrip(s, c), c)
endswith(s, c) == s # <<>> /\ s[Len(s)] = c

(***************************************************************************)
(* Lexemes and the terminals of the grammar (src/dsl/parser.py:4-25).      *)
(* A lexeme is either one of the grammar's literal strings or a run of     *)
(* characters to be matched against the three regular expressions.         *)
(***************************************************************************)
Kw(s) == [kw |-> s, chars |-> <<>>]
Lx(cs) == [kw |-> "", chars |-> cs]

\* string: /"[^"]*"/
MatchString(cs) ==
    /\ Len(cs) >= 2
    /\ cs[1] = QUOTE /\ cs[Len(cs)] = QUOTE
    /\ \A i \in 2..(Len(cs) - 1) : cs[i] # QUOTE
\* address: /0x[0-9a-fA-F]{40}/
MatchAddress(cs) ==
    /\ Len(cs) = 2 + AddressHexDigits
    /\ cs[1] = "0" /\ cs[2] = "x"
    /\ \A i \in 3..Len(cs) : cs[i] \in HexSet
\* number: /[0-9]+/
MatchNumber(cs) == IsNumeral(cs)

Terminal(lx) ==
    IF lx.kw # "" THEN lx.kw
    ELSE IF MatchString(lx.chars) THEN "STRING"
    ELSE IF MatchAddress(lx.chars) THEN "ADDRESS"
    ELSE IF MatchNumber(lx.chars) THEN "NUMBER"
    ELSE "UNLEXABLE"

\* The productions, each as the sequence of terminals it derives.
outcomes_rule == <<"outcomes:", "Yes", ",", "No", ";">>
oracle_rule == <<"oracle:", "ADDRESS", ";">>
fee_rule == <<"fee:", "NUMBER", "%", ";">>
trading_mechanism_rule == <<"trading_mechanism:", "pool", ";">>
fields_rule == outcomes_rule \o oracle_rule \o fee_rule \o trading_mechanism_rule
market_rule == <<"market", "STRING", "{">> \o fields_rule \o <<"}">>
start_rule == market_rule

\* The grammar derives exactly one sequence of terminals, so the LALR parser
\* accepts a document iff its terminals are that sequence.
Accepts(d) ==
    /\ Len(d) = Len(start_rule)
    /\ \A i \in 1..Len(d) : Terminal(d[i]) = start_rule[i]

\* the token an accepted document holds for a regular-expression terminal
TokenOf(d, t) == d[CHOOSE i \in 1..Len(d) : Terminal(d[i]) = t].chars

(***************************************************************************)
(* MarketTransformer (src/dsl/parser.py:28-63).  A Python dict is a        *)
(* function from its keys; an int or str value of the fee key is tagged.   *)
(***************************************************************************)
PyInt(n) == [py |-> "int", n |-> n, s |-> <<>>]
PyStr(s) == [py |-> "str", n |-> 0, s |-> s]
EmptyDict == [k \in {} |-> <<>>]
Keys == {"question", "outcomes", "oracle", "fee", "mechanism"}

T_string(items) == items[1]
T_address(items) == items[1]
T_number(items) == items[1]
T_outcomes(items) == [k \in {"outcomes"} |-> <<"Yes", "No">>]
T_oracle(items) == [k \in {"oracle"} |-> items[1]]
T_fee(items) == [k \in {"fee"} |-> PyInt(int(items[1]))]
T_trading_mechanism(items) == [k \in {"mechanism"} |-> <<"p", "o", "o", "l">>]
RECURSIVE T_fields(_)
T_fields(items) ==
    IF items = <<>> THEN EmptyDict
    ELSE items[Len(items)] @@ T_fields(SubSeq(items, 1, Len(items) - 1))
\* T_market with the fee entry forgotten
T_market_without_fee(items) ==
    [k \in Keys \ {"fee"} |->
        CASE k = "question" -> strip(items[1], QUOTE)
          [] k = "outcomes" -> items[2]["outcomes"]
          [] k = "oracle" -> items[2]["oracle"]
          [] k = "mechanism" -> items[2]["mechanism"]]
T_market(items) ==
    [k \in Keys |->
        CASE k = "question" -> strip(items[1], QUOTE)
          [] k = "outcomes" -> items[2]["outcomes"]
          [] k = "oracle" -> items[2]["oracle"]
          [] k = "fee" -> items[2]["fee"]
          [] k = "mechanism" -> items[2]["mechanism"]]
T_start(items) == items[1]

\* parse_market that reports a rejected document and still returns
parse_market_recovering(text) ==
    IF Accepts(text)
    THEN IF IntRaises(T_number(<<TokenOf(text, "NUMBER")>>))
         THEN [ok |-> FALSE, error |-> "ValueError", ast |-> EmptyDict]
         ELSE
         [ok |-> TRUE, error |-> "none",
          ast |-> T_start(<<T_market(<<
                     T_string(<<TokenOf(text, "STRING")>>),
                     T_fields(<<T_outcomes(<<>>),
                                T_oracle(<<T_address(<<TokenOf(text, "ADDRESS")>>)>>),
                                T_fee(<<T_number(<<TokenOf(text, "NUMBER")>>)>>),
                                T_trading_mechanism(<<>>)>>)>>)>>)]
    ELSE [ok |-> TRUE, error |-> "UnexpectedInput", ast |-> EmptyDict]

\* parse_market (src/dsl/parser.py:65-67): the tree of an accepted document,
\* reduced bottom-up; a rejected document raises and returns nothing, and so
\* does an accepted one whose fee reduction raises in int().
parse_market(text) ==
    IF Accepts(text)
    THEN IF IntRaises(T_number(<<TokenOf(text, "NUMBER")>>))
         THEN [ok |-> FALSE, error |-> "ValueError", ast |-> EmptyDict]
         ELSE
         [ok |-> TRUE, error |-> "none",
          ast |-> T_start(<<T_market(<<
                     T_string(<<TokenOf(text, "STRING")>>),
                     T_fields(<<T_outcomes(<<>>),
                                T_oracle(<<T_address(<<TokenOf(text, "ADDRESS")>>)>>),
                                T_fee(<<T_number(<<TokenOf(text, "NUMBER")>>)>>),
                                T_trading_mechanism(<<>>)>>)>>)>>)]
    ELSE [ok |-> FALSE, error |-> "UnexpectedInput", ast |-> EmptyDict]

(***************************************************************************)
(* generate_contract (src/market_generator.py:1-128).  The returned text   *)
(* is a sequence of pieces: the template's own text cut into tokens, and   *)
(* one character per piece for an interpolated value.                      *)
(***************************************************************************)
NoText == <<>>
Unset == [py |-> "unset", n |-> 0, s |-> <<>>]

\* lines 21-54: licence, pragma, state variables, events
TemplateHead == <<"// SPDX-License-Identifier: MIT ... event WinningsClaimed(address user, uint256 amount);">>
\* lines 55-65: the constructor up to the mechanism assignment
TemplateConstructor ==
    <<"constructor", "(", "string memory _question", ",", "address _oracle", ",",
      "uint256 _fee", ")", "{",
      "require(_oracle != address(0), \"Invalid oracle address\");",
      "require(_fee <= 1000, \"Fee too high\");",
      "question", "=", "_question", ";",
      "oracle", "=", "_oracle", ";",
      "fee", "=", "_fee", ";">>
\* line 66: mechanism = "{market['mechanism']}";
TemplateMechanism(mechanism) ==
    <<"mechanism", "=", QUOTE>> \o mechanism \o <<QUOTE, ";">>
\* lines 68-128: the event, the three functions, the closing brace
TemplateTail ==
    <<"emit MarketCreated(_question, _oracle, _fee);", "}",
      "function openPosition ... function resolveMarket ... function claimWinnings ... }">>

\* generate_contract that stamps the text with the number of the call
generate_contract_stamped(m) ==
    IF "fee" \notin DOMAIN m
    THEN [ok |-> FALSE, error |-> "KeyError", text |-> NoText,
          fee |-> Unset, converted |-> FALSE]
    ELSE LET f == m["fee"]
             percent == f.py = "str" /\ endswith(f.s, "%")
         IN  IF percent /\ IntRaises(rstrip(f.s, "%"))
             THEN [ok |-> FALSE, error |-> "ValueError", text |-> NoText,
                   fee |-> Unset, converted |-> FALSE]
             ELSE IF "mechanism" \notin DOMAIN m
             THEN [ok |-> FALSE, error |-> "KeyError", text |-> NoText,
                   fee |-> Unset, converted |-> FALSE]
             ELSE [ok |-> TRUE, error |-> "none",
                   text |-> <<"// build">> \o str(calls) \o TemplateHead
                              \o TemplateConstructor
                              \o TemplateMechanism(m["mechanism"]) \o TemplateTail,
                   fee |-> IF percent THEN PyInt(int(rstrip(f.s, "%")) * 100) ELSE f,
                   converted |-> percent]

generate_contract(m) ==
    IF "fee" \notin DOMAIN m
    THEN [ok |-> FALSE, error |-> "KeyError", text |-> NoText,
          fee |-> Unset, converted |-> FALSE]
    ELSE LET f == m["fee"]
             percent == f.py = "str" /\ endswith(f.s, "%")
         IN  IF percent /\ IntRaises(rstrip(f.s, "%"))
             THEN [ok |-> FALSE, error |-> "ValueError", text |-> NoText,
                   fee |-> Unset, converted |-> FALSE]
             ELSE IF "mechanism" \notin DOMAIN m
             THEN [ok |-> FALSE, error |-> "KeyError", text |-> NoText,
                   fee |-> Unset, converted |-> FALSE]
             ELSE [ok |-> TRUE, error |-> "none",
                   text |-> TemplateHead \o TemplateConstructor
                              \o TemplateMechanism(m["mechanism"]) \o TemplateTail,
                   fee |-> IF percent THEN PyInt(int(rstrip(f.s, "%")) * 100) ELSE f,
                   converted |-> percent]

(***************************************************************************)
(* Inputs of a run                                                         *)
(***************************************************************************)
\* 0x1234567890123456789012345678901234567890 (src/market_generator.py:134)
ExampleAddress == <<"0", "x">> \o [i \in 1..AddressHexDigits |-> Digit[(i % 10) + 1]]
MixedCaseAddress ==
    <<"0", "x">> \o [i \in 1..AddressHexDigits |-> IF i % 2 = 0 THEN "a" ELSE "F"]
ShortAddress == SubSeq(ExampleAddress, 1, Len(ExampleAddress) - 1)
NonHexAddress == <<"0", "x">> \o [i \in 1..AddressHexDigits |-> "Z"]
AddressLexemes == {ExampleAddress, MixedCaseAddress, ShortAddress, NonHexAddress}

QuestionLexemes == {<<QUOTE, "E", "T", "H", "?", QUOTE>>, <<QUOTE, QUOTE>>,
                    <<QUOTE, "E", "T", "H">>}
\* a numeral one digit longer than int() converts
LongNumeral == [i \in 1..(IntMaxStrDigits + 1) |-> "1"]
FeeLexemes == {<<"0">>, <<"1">>, <<"1", "0">>, <<"0", "1", "5">>,
               <<"2", "0", "0", "0">>, LongNumeral}

FieldKinds == {"outcomes", "oracle", "fee", "trading_mechanism"}
Field(kind, a, n) ==
    CASE kind = "outcomes" -> <<Kw("outcomes:"), Kw("Yes"), Kw(","), Kw("No"), Kw(";")>>
      [] kind = "oracle" -> <<Kw("oracle:"), Lx(a), Kw(";")>>
      [] kind = "fee" -> <<Kw("fee:"), Lx(n), Kw("%"), Kw(";")>>
      [] kind = "trading_mechanism" -> <<Kw("trading_mechanism:"), Kw("pool"), Kw(";")>>
RECURSIVE FieldsOf(_, _, _)
FieldsOf(kinds, a, n) ==
    IF kinds = <<>> THEN <<>>
    ELSE Field(Head(kinds), a, n) \o FieldsOf(Tail(kinds), a, n)
Document(q, kinds, a, n) ==
    <<Kw("market"), Lx(q), Kw("{")>> \o FieldsOf(kinds, a, n) \o <<Kw("}")>>
FieldOrders == UNION {[1..k -> FieldKinds] : k \in 0..MaxFields}
CanonicalOrder == <<"outcomes", "oracle", "fee", "trading_mechanism">>
Documents ==
    {Document(q, kinds, a, n) :
        q \in QuestionLexemes, kinds \in FieldOrders,
        a \in AddressLexemes, n \in FeeLexemes}

\* dictionaries a caller builds by hand, as __main__ does
\* (src/market_generator.py:132-138)
Pool == <<"p", "o", "o", "l">>
DirectFees == {PyInt(100), PyInt(1), PyInt(1500),
               PyStr(<<"1", "%">>), PyStr(<<"1", "5", "%">>),
               PyStr(<<"1", "0", "0">>), PyStr(<<"x", "%">>)}
DirectMechanisms == {Pool, <<"a", QUOTE, "b">>, <<"a", BACKSLASH, QUOTE>>}
DirectQuestions == {<<"E", "T", "H", "?">>, <<"a", QUOTE>>}
DirectOracles == {ExampleAddress, NonHexAddress}
DirectOutcomes == {<<"Yes", "No">>, <<"Yes">>}
Dict(keys, q, oc, o, f, me) ==
    [k \in keys |->
        CASE k = "question" -> q
          [] k = "outcomes" -> oc
          [] k = "oracle" -> o
          [] k = "fee" -> f
          [] k = "mechanism" -> me]
DirectMarkets ==
    {Dict(Keys \ drop, q, oc, o, f, me) :
        drop \in {{}, {"fee"}, {"mechanism"}},
        q \in DirectQuestions, oc \in DirectOutcomes, o \in DirectOracles,
        f \in DirectFees, me \in DirectMechanisms}

(***************************************************************************)
(* One compilation run                                                     *)
(***************************************************************************)
PipeInit ==
    /\ \/ origin = "dsl" /\ doc \in Documents /\ market = EmptyDict /\ pc = "start"
       \/ origin = "direct" /\ doc = <<>> /\ market \in DirectMarkets /\ pc = "parsed"
    /\ contract = NoText /\ contract2 = NoText
    /\ fee_local = Unset /\ converted = 0
    /\ error = "none" /\ stages = <<>> /\ calls = 0

\* result = parse_market(text)
ParseMarket ==
    /\ pc = "start"
    /\ LET r == parse_market(doc)
       IN  /\ market' = r.ast
           /\ error' = r.error
           /\ pc' = IF r.ok THEN "parsed" ELSE "failed"
    /\ stages' = Append(stages, "parse")
    /\ UNCHANGED <<origin, doc, contract, contract2, fee_local, converted, calls>>

\* contract_source = generate_contract(market)
GenerateContract ==
    /\ pc = "parsed"
    /\ LET r == generate_contract(market)
       IN  /\ contract' = r.text
           /\ fee_local' = r.fee
           /\ converted' = converted + (IF r.converted THEN 1 ELSE 0)
           /\ error' = r.error
           /\ pc' = IF r.ok THEN "done" ELSE "failed"
    /\ stages' = Append(stages, "generate")
    /\ calls' = calls + 1
    /\ UNCHANGED <<origin, doc, market, contract2>>

\* a further generate_contract(market) on the same dictionary
GenerateAgain ==
    /\ pc = "done"
    /\ calls < MaxCalls
    /\ contract2' = generate_contract(market).text
    /\ calls' = calls + 1
    /\ UNCHANGED <<origin, doc, market, pc, contract, fee_local, converted,
                   error, stages>>

PipeNext == ParseMarket \/ GenerateContract \/ GenerateAgain

(***************************************************************************)
(* The BinaryMarket contract of the template                               *)
(* (src/market_generator.py:27-128).  A transaction is atomic; the only    *)
(* point where other code runs inside a call is the ETH transfer of        *)
(* claimWinnings (line 123), which hands control to the recipient.  A call *)
(* suspended there is a frame; a frame whose transfer fails reverts to the *)
(* storage saved when the call began.  Amounts are wei counts far below    *)
(* 2^128, so the checked uint256 arithmetic of Solidity 0.8 never          *)
(* overflows and is modelled on the naturals.                              *)
(***************************************************************************)
MaxBets == 2          \* successful openPosition calls
MaxDepth == 2         \* claimWinnings calls nested in one another's transfer

MaxFeeBps == 1000     \* require(_fee <= 1000, "Fee too high")
BpsDenominator == 10000

ZeroAddress == "0x0"
Addresses == {"alice", "bob", "carol"}
Outcome == {"Yes", "No"}
Values == {0, 1, 10}                  \* msg.value of an openPosition call
ConstructorOracles == {ZeroAddress, "alice", "carol"}
ConstructorFees == {0, 1000, 1001}

Storage == <<isResolved, winningOutcome, outcomeAmounts, userPositions,
             balance, received>>
Snapshot ==
    [isResolved |-> isResolved, winningOutcome |-> winningOutcome,
     outcomeAmounts |-> outcomeAmounts, userPositions |-> userPositions,
     balance |-> balance, received |-> received]
Call(fn, sender, result) == [fn |-> fn, sender |-> sender, result |-> result]

\* constructor (lines 55-69): both requires passed
ChainInit ==
    /\ oracle \in {a \in ConstructorOracles : a # ZeroAddress}
    /\ fee \in {f \in ConstructorFees : f <= MaxFeeBps}
    /\ isResolved = FALSE
    /\ winningOutcome = "Yes"
    /\ outcomeAmounts = [o \in Outcome |-> 0]
    /\ userPositions = [a \in Addresses |-> [o \in Outcome |-> 0]]
    /\ balance = 0
    /\ received = [a \in Addresses |-> 0]
    /\ frames = <<>>
    /\ resolver = "none"
    /\ bets = 0
    /\ staked = [a \in Addresses |-> [o \in Outcome |-> 0]]
    /\ last = Call("constructor", "none", "ok")

\* a reverted call changes nothing in storage
Reverted(fn, sender) ==
    /\ last' = Call(fn, sender, "reverted")
    /\ UNCHANGED <<oracle, fee, Storage, frames, resolver, bets, staked>>

\* function openPosition(Outcome outcome) external payable (lines 74-85)
openPosition(sender, outcome, value) ==
    IF isResolved \/ value = 0
    THEN Reverted("openPosition", sender)
    ELSE /\ bets < MaxBets
         /\ userPositions' =
               [userPositions EXCEPT ![sender][outcome] = @ + value]
         /\ outcomeAmounts' = [outcomeAmounts EXCEPT ![outcome] = @ + value]
         /\ balance' = balance + value
         /\ bets' = bets + 1
         /\ staked' = [staked EXCEPT ![sender][outcome] = @ + value]
         /\ last' = Call("openPosition", sender, "ok")
         /\ UNCHANGED <<oracle, fee, isResolved, winningOutcome, received,
                        frames, resolver>>

\* resolveMarket without the oracle check
resolveMarket_by_anyone(sender, _winningOutcome) ==
    IF isResolved
    THEN Reverted("resolveMarket", sender)
    ELSE /\ isResolved' = TRUE
         /\ winningOutcome' = _winningOutcome
         /\ resolver' = sender
         /\ last' = Call("resolveMarket", sender, "ok")
         /\ UNCHANGED <<oracle, fee, outcomeAmounts, userPositions, balance,
                        received, frames, bets, staked>>

\* function resolveMarket(Outcome _winningOutcome) external (lines 90-98)
resolveMarket(sender, _winningOutcome) ==
    IF sender # oracle \/ isResolved
    THEN Reverted("resolveMarket", sender)
    ELSE /\ isResolved' = TRUE
         /\ winningOutcome' = _winningOutcome
         /\ resolver' = sender
         /\ last' = Call("resolveMarket", sender, "ok")
         /\ UNCHANGED <<oracle, fee, outcomeAmounts, userPositions, balance,
                        received, frames, bets, staked>>

\* the share computed with the fee left in
amount_without_fee(userAmount, winningPool, feeBps) ==
    (userAmount * winningPool) \div winningPool

\* lines 110-117: feeAmount, netWinningPool, amount
amount(userAmount, winningPool, feeBps) ==
    LET feeAmount == (winningPool * feeBps) \div BpsDenominator
        netWinningPool == winningPool - feeAmount
    IN  (userAmount * netWinningPool) \div winningPool

\* claimWinnings that leaves the caller's position in place
claimWinnings_without_clear(sender) ==
    LET userAmount == userPositions[sender][winningOutcome]
    IN  IF ~isResolved \/ userAmount = 0
        THEN Reverted("claimWinnings", sender)
        ELSE LET winningPool == outcomeAmounts[winningOutcome]
                 pay == amount(userAmount, winningPool, fee)
             IN  IF pay > balance
                 THEN Reverted("claimWinnings", sender)
                 ELSE /\ Len(frames) < MaxDepth
                      /\ balance' = balance - pay
                      /\ received' = [received EXCEPT ![sender] = @ + pay]
                      /\ frames' = Append(frames, [sender |-> sender, amount |-> pay,
                                                   saved |-> Snapshot])
                      /\ last' = Call("claimWinnings", sender, "transfer")
                      /\ UNCHANGED <<oracle, fee, isResolved, winningOutcome,
                                     outcomeAmounts, userPositions, resolver,
                                     bets, staked>>

\* function claimWinnings() external (lines 103-123): the requires, the
\* computation, the cleared position, and the transfer that hands control
\* to the caller; a transfer the balance cannot cover fails at once
claimWinnings(sender) ==
    LET userAmount == userPositions[sender][winningOutcome]
    IN  IF ~isResolved \/ userAmount = 0
        THEN Reverted("claimWinnings", sender)
        ELSE LET winningPool == outcomeAmounts[winningOutcome]
                 pay == amount(userAmount, winningPool, fee)
             IN  IF pay > balance
                 THEN Reverted("claimWinnings", sender)
                 ELSE /\ Len(frames) < MaxDepth
                      /\ userPositions' =
                            [userPositions EXCEPT ![sender][winningOutcome] = 0]
                      /\ balance' = balance - pay
                      /\ received' = [received EXCEPT ![sender] = @ + pay]
                      /\ frames' = Append(frames, [sender |-> sender, amount |-> pay,
                                                   saved |-> Snapshot])
                      /\ last' = Call("claimWinnings", sender, "transfer")
                      /\ UNCHANGED <<oracle, fee, isResolved, winningOutcome,
                                     outcomeAmounts, resolver, bets, staked>>

\* lines 123-127: the transfer returns; require(success, "Transfer failed")
claimWinningsReturn(success) ==
    /\ frames # <<>>
    /\ LET top == frames[Len(frames)]
       IN  IF success
           THEN /\ last' = Call("claimWinnings", top.sender, "paid")
                /\ UNCHANGED Storage
           ELSE /\ last' = Call("claimWinnings", top.sender, "reverted")
                /\ isResolved' = top.saved.isResolved
                /\ winningOutcome' = top.saved.winningOutcome
                /\ outcomeAmounts' = top.saved.outcomeAmounts
                /\ userPositions' = top.saved.userPositions
                /\ balance' = top.saved.balance
                /\ received' = top.saved.received
    /\ frames' = SubSeq(frames, 1, Len(frames) - 1)
    /\ UNCHANGED <<oracle, fee, resolver, bets, staked>>

\* the compiler's variables while only the contract runs
PipeParked ==
    /\ origin = "none" /\ doc = <<>> /\ market = EmptyDict /\ pc = "none"
    /\ contract = NoText /\ contract2 = NoText /\ fee_local = Unset
    /\ converted = 0 /\ error = "none" /\ stages = <<>> /\ calls = 0

MarketInit == ChainInit /\ PipeParked
MarketNext ==
    \/ \E a \in Addresses, o \in Outcome, v \in Values :
          openPosition(a, o, v) /\ UNCHANGED pipeVars
    \/ \E a \in Addresses, o \in Outcome :
          resolveMarket(a, o) /\ UNCHANGED pipeVars
    \/ \E a \in Addresses : claimWinnings(a) /\ UNCHANGED pipeVars
    \/ \E ok \in BOOLEAN : claimWinningsReturn(ok) /\ UNCHANGED pipeVars
SpecMarket == MarketInit /\ [][MarketNext]_vars

\* the contract's variables while only the compiler runs
ChainParked ==
    /\ oracle = "none" /\ fee = 0 /\ isResolved = FALSE /\ winningOutcome = "Yes"
    /\ outcomeAmounts = <<>> /\ userPositions = <<>> /\ balance = 0
    /\ received = <<>> /\ frames = <<>> /\ resolver = "none" /\ bets = 0
    /\ staked = <<>>
    /\ last = <<>>

Init == PipeInit /\ ChainParked
Next ==
    \/ ParseMarket /\ UNCHANGED chainVars
    \/ GenerateContract /\ UNCHANGED chainVars
    \/ GenerateAgain /\ UNCHANGED chainVars
Spec == Init /\ [][Next]_vars

(***************************************************************************)
(* Properties of the compilation run                                       *)
(***************************************************************************)
Finished == pc \in {"done", "failed"}
\* the numeral a document accepted by the grammar gives for its fee
FeeLiteral(d) == int(TokenOf(d, "NUMBER"))
\* the Validator's rules (spec 4.3) on a dictionary whose fee is in basis points
ValidModel(m) ==
    /\ DOMAIN m = Keys
    /\ m["fee"].py = "int" /\ m["fee"].n >= 0 /\ m["fee"].n <= 1000
    /\ MatchAddress(m["oracle"])
    /\ m["outcomes"] = <<"Yes", "No">>
    /\ m["mechanism"] = Pool
\* the text assigns the literal `value` to the state variable `name`
Assigns(text, name, value) ==
    \E i \in 1..Len(text) :
        /\ i + Len(value) + 2 <= Len(text)
        /\ SubSeq(text, i, i + Len(value) + 2) = <<name, "=">> \o value \o <<";">>
\* a document exactly of the form market STRING { outcomes oracle fee
\* trading_mechanism } with a well-formed string, address and number
Conforming(d) ==
    \E q \in QuestionLexemes, a \in AddressLexemes, n \in FeeLexemes :
        /\ d = Document(q, CanonicalOrder, a, n)
        /\ q[1] = QUOTE /\ q[Len(q)] = QUOTE /\ Len(q) >= 2
        /\ a \in {ExampleAddress, MixedCaseAddress}
        /\ n # <<>>
\* where a Solidity scanner ends the string literal opened at text[open]:
\* a backslash escapes the piece after it, the first bare quote closes
RECURSIVE LiteralEnd(_, _)
LiteralEnd(text, j) ==
    IF j > Len(text) THEN 0
    ELSE IF text[j] = BACKSLASH THEN LiteralEnd(text, j + 2)
    ELSE IF text[j] = QUOTE THEN j
    ELSE LiteralEnd(text, j + 1)
MechanismOpen(text) ==
    CHOOSE i \in 3..Len(text) : SubSeq(text, i - 2, i) = <<"mechanism", "=", QUOTE>>

\* C1: for every fee literal f in 0..10 the run from a conforming document
\* ends with fee_bps = 100*f, and for f > 10 it fails with FeeOutOfRange and
\* yields no contract.
C1_FeeConversionExact ==
    (/\ origin = "dsl" /\ Accepts(doc) /\ Finished
     /\ ~IntRaises(TokenOf(doc, "NUMBER"))) =>
        LET f == FeeLiteral(doc)
        IN  /\ f <= 10 => (pc = "done" /\ fee_local = PyInt(100 * f))
            /\ f > 10 => (pc = "failed" /\ error = "FeeOutOfRange"
                          /\ contract = NoText)

\* C2: the percentage-to-basis-points conversion is applied exactly once in
\* the whole run and never by generate_contract: the fee generate_contract
\* works with is the fee it was given, and a run from a document ends with
\* 100 times the literal.
C2_ConvertedExactlyOnce ==
    pc = "done" =>
        /\ converted = 0
        /\ fee_local = market["fee"]
        /\ origin = "dsl" => fee_local = PyInt(100 * FeeLiteral(doc))

\* C3: a document exactly of the form market STRING { outcomes oracle fee
\* trading_mechanism } parses to a dictionary with all five fields
\* populated; a document with a field omitted, duplicated or out of order,
\* or with a malformed address, raises and yields no dictionary.
C3_GrammarCompleteSound ==
    (origin = "dsl" /\ stages # <<>>) =>
        IF Conforming(doc)
        THEN /\ error = "none"
             /\ DOMAIN market = Keys
             /\ market["outcomes"] # <<>> /\ market["oracle"] # <<>>
             /\ market["mechanism"] # <<>> /\ market["fee"].py = "int"
             /\ market["question"] \in Seq(STRING)
        ELSE /\ pc = "failed" /\ error = "UnexpectedInput"
             /\ market = EmptyDict /\ contract = NoText
C3_Witness ==
    /\ origin = "dsl" /\ pc = "parsed" /\ Conforming(doc)
    /\ market["oracle"] = MixedCaseAddress

\* C4: for a valid market the returned text sets, in its constructor, the
\* fee to the model's basis-point value and the oracle to the model's
\* address.
C4_ConstructorEmbedsFeeAndOracle ==
    (pc = "done" /\ ValidModel(market)) =>
        /\ Assigns(contract, "fee", str(fee_local.n))
        /\ Assigns(contract, "oracle", market["oracle"])

\* C5: in a run from a document, generate_contract only ever yields text
\* for a dictionary that passes every Validator rule.
C5_OnlyValidatedModelsGenerate ==
    (origin = "dsl" /\ contract # NoText) => ValidModel(market)

C7_InterpolationEscaped ==
    pc = "done" =>
        LiteralEnd(contract, MechanismOpen(contract) + 1)
            = MechanismOpen(contract) + Len(market["mechanism"]) + 1

Canonical(numeral) ==
    IF lstrip(numeral, "0") = <<>> THEN <<"0">> ELSE lstrip(numeral, "0")

\* C11: the reductions are total and lose nothing: for every document the
\* grammar accepts no reduction raises, the fee is the numeral before % as
\* an unsigned integer, the oracle is the address literal unchanged, the
\* outcomes are ("Yes", "No"), the mechanism is "pool", and the question is
\* the STRING token without its two enclosing quotes.
C11_ReductionsTotalLossless ==
    (origin = "dsl" /\ stages # <<>> /\ Accepts(doc)) =>
        /\ error = "none"
        /\ DOMAIN market = Keys
        /\ market["fee"].py = "int" /\ market["fee"].n >= 0
        /\ str(market["fee"].n) = Canonical(TokenOf(doc, "NUMBER"))
        /\ market["oracle"] = TokenOf(doc, "ADDRESS")
        /\ market["outcomes"] = <<"Yes", "No">>
        /\ market["mechanism"] = Pool
        /\ market["question"]
              = SubSeq(TokenOf(doc, "STRING"), 2, Len(TokenOf(doc, "STRING")) - 1)

(***************************************************************************)
(* Properties of the BinaryMarket contract                                 *)
(***************************************************************************)
\* C9: the market is resolved only by a resolveMarket call of the oracle; a
\* resolveMarket call by another address, or after resolution, is rejected
\* and leaves the storage unchanged; once resolved, isResolved and
\* winningOutcome never change again.
C9_OracleGatedResolution ==
    /\ [](isResolved => resolver = oracle)
    /\ [][(last'.fn = "resolveMarket" /\ (last'.sender # oracle \/ isResolved))
             => (last'.result = "reverted" /\ UNCHANGED Storage)]_vars
    /\ [][isResolved => (isResolved' /\ winningOutcome' = winningOutcome)]_vars
C9_Witness ==
    /\ isResolved /\ resolver = oracle /\ winningOutcome = "No"
    /\ last = Call("resolveMarket", oracle, "reverted")

\* the share as the claim states it
ClaimedShare(userAmount, winningPool, feeBps) ==
    (userAmount * (winningPool - (winningPool * feeBps) \div 10000))
        \div winningPool

\* C10: claimWinnings is rejected unless the market is resolved and the
\* caller holds a non-zero position on the winning outcome; a call that is
\* not rejected pays the caller
\* (userAmount * (winningPool - (winningPool * fee) / 10000)) / winningPool,
\* and ETH leaves the contract in no other way.
C10_ProportionalPayout ==
    [][/\ (last'.fn = "claimWinnings" /\ last'.result = "transfer") =>
            LET u == last'.sender
                userAmount == userPositions[u][winningOutcome]
                winningPool == outcomeAmounts[winningOutcome]
            IN  /\ isResolved /\ userAmount > 0
                /\ received'[u] - received[u]
                      = ClaimedShare(userAmount, winningPool, fee)
                /\ balance - balance'
                      = ClaimedShare(userAmount, winningPool, fee)
       /\ \A u \in Addresses :
            (/\ last'.fn = "claimWinnings" /\ last'.sender = u
             /\ Len(frames') >= Len(frames)
             /\ (~isResolved \/ userPositions[u][winningOutcome] = 0))
            => (last'.result = "reverted" /\ UNCHANGED Storage)
       /\ last'.result = "paid" => UNCHANGED Storage
       /\ \A u \in Addresses :
            received'[u] > received[u] => last' = Call("claimWinnings", u, "transfer")
      ]_vars
C10_Witness ==
    /\ \E u \in Addresses :
          /\ last = Call("claimWinnings", u, "paid")
          /\ received[u] = 9
    /\ outcomeAmounts[winningOutcome] = 11
    /\ fee = 1000

RECURSIVE SumOver(_, _)
SumOver(f, S) ==
    IF S = {} THEN 0
    ELSE LET a == CHOOSE x \in S : TRUE IN f[a] + SumOver(f, S \ {a})
InTransfer(u) == \E i \in 1..Len(frames) : frames[i].sender = u

\* C12: no address is ever paid more than it staked on the winning outcome
\* and the contract stays solvent: what has been paid out plus the balance
\* is what was staked, and the balance covers every winning position still
\* open; claimWinnings has cleared the caller's position when the transfer
\* starts, so a claimWinnings call the recipient makes during its own
\* transfer is rejected; openPosition after resolution is rejected.
C12_NoDoublePaymentSolvent ==
    /\ [](\A u \in Addresses : received[u] <= staked[u][winningOutcome])
    /\ [](/\ balance >= 0
          /\ balance + SumOver(received, Addresses)
                = outcomeAmounts["Yes"] + outcomeAmounts["No"]
          /\ isResolved =>
                SumOver([u \in Addresses |-> userPositions[u][winningOutcome]],
                        Addresses) <= balance)
    /\ [](\A u \in Addresses : InTransfer(u) => userPositions[u][winningOutcome] = 0)
    /\ [][\A u \in Addresses :
            (last'.fn = "claimWinnings" /\ last'.sender = u /\ InTransfer(u)
             /\ Len(frames') >= Len(frames))
            => (last'.result = "reverted" /\ UNCHANGED Storage)]_vars
    /\ [][(last'.fn = "openPosition" /\ isResolved)
            => (last'.result = "reverted" /\ UNCHANGED <<Storage, staked>>)]_vars
C12_Witness ==
    /\ Len(frames) = 2
    /\ last = Call("claimWinnings", frames[1].sender, "reverted")
    /\ received[frames[1].sender] > 0 /\ received[frames[2].sender] > 0

====
